---- MODULE Spec2Model ----
(***************************************************************************)
(* A model of the Option class of src/src/index.ts (lines 260-500): the    *)
(* object heap it allocates in, the canonical NONE object, the factory     *)
(* functions, match() and the combinators built on it, and UnwrapError.    *)
(*                                                                         *)
(* JavaScript values are tagged records.  Option objects and Error objects *)
(* live in two heaps and are referred to by address, so that reference     *)
(* identity (===, toBe) is equality of addresses.  Callbacks are closure   *)
(* records run by Invoke: the caller's callbacks are logged the way a      *)
(* jest.fn() logs its calls, the closures index.ts itself builds are not.  *)
(***************************************************************************)
EXTENDS Integers, Sequences, FiniteSets, TLC

VARIABLES
    heap,      \* the Option objects allocated so far, by address
    errs,      \* the Error objects allocated so far, by address
    calls,     \* the caller's callbacks invoked by the last operation, in order
    reads,     \* the array elements Option.all() inspected in the last operation
    op,        \* the last operation called: its name, receiver and argument
    ret,       \* how the last operation ended: returned or thrown value
    before,    \* the two heaps as they were when the last operation was called
    noneRefs,  \* every value Option.none() has returned so far
    noneCalls, \* how many times Option.none() has been called
    pc         \* the caller: "idle" between two calls, "called" holding a result

vars == <<heap, errs, calls, reads, op, ret, before, noneRefs, noneCalls, pc>>

\* ------------------------------------------------------------------ bounds
MaxHeap == 4      \* Option objects, NONE included
MaxErrs == 1      \* Error objects
MaxAll == 2       \* length of the array passed to Option.all()
MaxNoneCalls == 2 \* calls of Option.none() that are counted
MaxLibraryHeap == 3   \* Option objects, NONE included, when every operation is enabled

\* ------------------------------------------------------------------ values
Undefined == [kind |-> "undefined"]
Null == [kind |-> "null"]
Num(n) == [kind |-> "number", num |-> n]
Str(s) == [kind |-> "string", str |-> s]
Bool(b) == [kind |-> "boolean", bool |-> b]
Arr(s) == [kind |-> "array", elems |-> s]
Ref(i) == [kind |-> "option", ref |-> i]
ErrRef(i) == [kind |-> "error", ref |-> i]

\* typeof x, for the values of the model
TypeOf(x) ==
    CASE x.kind = "undefined" -> "undefined"
      [] x.kind = "number" -> "number"
      [] x.kind = "string" -> "string"
      [] x.kind = "boolean" -> "boolean"
      [] OTHER -> "object"

\* ----------------------------------------------------- the machine state
\* m = [heap, errs, calls, reads]; an operation maps a machine to a completion
\* [m, kind, value] with kind "return" or "throw".
Return(m, v) == [m |-> m, kind |-> "return", value |-> v]
Throw(m, e) == [m |-> m, kind |-> "throw", value |-> e]

\* o.value, which is undefined on an object that has no such property
GetValue(o) == IF "value" \in DOMAIN o THEN o.value ELSE Undefined

\* const NONE = (() => { none = Object.create(..); none.isNone_ = true })()
\* is evaluated once, when the module is loaded: the first object allocated.
NONE == 1
NoneObject == [isNone_ |-> TRUE]

\* new Error(message), the caller's own error objects
NewErrorObject(message) == [name |-> "Error", message |-> message]

\* class UnwrapError: super(message); this.name = "UnwrapError"
UnwrapError_AsPlainError(m, message) ==
    Return([m EXCEPT !.errs = Append(@, NewErrorObject(message))],
           ErrRef(Len(m.errs) + 1))
UnwrapError(m, message) ==
    Return([m EXCEPT !.errs = Append(@, [name |-> "UnwrapError", message |-> message])],
           ErrRef(Len(m.errs) + 1))

\* static some(value)
some(m, value) ==
    Return([m EXCEPT !.heap = Append(@, [isNone_ |-> FALSE, value |-> value])],
           Ref(Len(m.heap) + 1))

\* static none()
none_Fresh(m) ==
    Return([m EXCEPT !.heap = Append(@, NoneObject)], Ref(Len(m.heap) + 1))
none(m) == Return(m, Ref(NONE))

\* isNone() and isSome()
isNone(m, this) == m.heap[this].isNone_

isSome_SameAsIsNone(m, this) == isNone(m, this)
isSome(m, this) == ~isNone(m, this)

\* ------------------------------------------------------------- callbacks
\* The i-th argument of a call, undefined when fewer were passed
Arg(args, i) == IF i <= Len(args) THEN args[i] ELSE Undefined

\* The caller's callbacks, as the tests and the README write them
Constant(v) == [code |-> "constant", value |-> v]   \* () => v
ArrayOf == [code |-> "arrayOf"]                     \* x => [x]
SomeOf == [code |-> "someOf"]                       \* x => Option.some(x)
Raise(e) == [code |-> "raise", error |-> e]         \* () => { throw e }
IsNull == [code |-> "isNull"]                       \* x => x === null

UserCodes == {"constant", "arrayOf", "someOf", "raise", "isNull"}

\* The callbacks of the README's usage example
ToUpperCase == [code |-> "toUpperCase"]             \* x => x.toUpperCase()
RepeatTimes(c) == [code |-> "repeatTimes", c |-> c] \* a => c.map(c => a.repeat(c))
RepeatOf(a) == [code |-> "repeat", a |-> a]         \* c => a.repeat(c)

ReadmeCodes == {"toUpperCase", "repeatTimes", "repeat"}

\* String.prototype.toUpperCase on the letters the example uses
UpperCaseLetter(c) ==
    CASE c = "f" -> "F"
      [] c = "o" -> "O"
      [] OTHER -> c
RECURSIVE toUpperCase(_)
toUpperCase(s) ==
    IF Len(s) = 0
    THEN ""
    ELSE UpperCaseLetter(SubSeq(s, 1, 1)) \o toUpperCase(SubSeq(s, 2, Len(s)))

\* String.prototype.repeat, for a count >= 0
RECURSIVE repeat(_, _)
repeat(s, count) == IF count = 0 THEN "" ELSE s \o repeat(s, count - 1)

RECURSIVE Invoke(_, _, _)
RECURSIVE match(_, _, _)
RECURSIVE map(_, _, _)

\* A call of one of the caller's callbacks: the call is logged, then it runs
UserCall(m, f, args) ==
    LET m1 == [m EXCEPT !.calls = Append(@, [fn |-> f, args |-> args])]
    IN  CASE f.code = "constant" -> Return(m1, f.value)
          [] f.code = "arrayOf" -> Return(m1, Arr(<<Arg(args, 1)>>))
          [] f.code = "someOf" -> some(m1, Arg(args, 1))
          [] f.code = "raise" -> Throw(m1, f.error)
          [] f.code = "isNull" -> Return(m1, Bool(Arg(args, 1) = Null))

\* A call of one of the README's callbacks, on a string or a count as their
\* TypeScript types require
ReadmeCall(m, f, args) ==
    LET m1 == [m EXCEPT !.calls = Append(@, [fn |-> f, args |-> args])]
    IN  CASE f.code = "toUpperCase" -> Return(m1, Str(toUpperCase(Arg(args, 1).str)))
          [] f.code = "repeatTimes" -> map(m1, f.c.ref, RepeatOf(Arg(args, 1)))
          [] f.code = "repeat" -> Return(m1, Str(repeat(f.a.str, Arg(args, 1).num)))

\* match(matcher)
match_Both(m, this, matcher) ==
    LET n == Invoke(m, matcher.none, <<>>)
    IN  IF isNone(m, this) \/ n.kind = "throw"
        THEN n
        ELSE Invoke(n.m, matcher.some, <<GetValue(m.heap[this])>>)
match(m, this, matcher) ==
    IF isNone(m, this)
    THEN Invoke(m, matcher.none, <<>>)
    ELSE Invoke(m, matcher.some, <<GetValue(m.heap[this])>>)

\* map(mapper): none: () => this, some: value => Option.some(mapper(value))
map_none_Fresh(m, this) ==
    Return([m EXCEPT !.heap = Append(@, NoneObject)], Ref(Len(m.heap) + 1))
map_none(m, this) == Return(m, Ref(this))
map_some_NoWrap(m, mapper, value) == Invoke(m, mapper, <<value>>)
map_some_Catches(m, mapper, value) ==
    LET r == Invoke(m, mapper, <<value>>)
    IN  IF r.kind = "throw" THEN none(r.m) ELSE some(r.m, r.value)
map_some(m, mapper, value) ==
    LET r == Invoke(m, mapper, <<value>>)
    IN  IF r.kind = "throw" THEN r ELSE some(r.m, r.value)
map_InPlace(m, this, mapper) ==
    IF isNone(m, this)
    THEN Return(m, Ref(this))
    ELSE LET r == Invoke(m, mapper, <<GetValue(m.heap[this])>>)
         IN  IF r.kind = "throw"
             THEN r
             ELSE Return([r.m EXCEPT !.heap[this].value = r.value], Ref(this))
map(m, this, mapper) ==
    match(m, this, [none |-> [code |-> "map.none", this |-> this],
                    some |-> [code |-> "map.some", mapper |-> mapper]])

\* ifSome(executor): this.map(executor), its result dropped
ifSome_ReturnsMapped(m, this, executor) == map(m, this, executor)
ifSome(m, this, executor) ==
    LET r == map(m, this, executor)
    IN  IF r.kind = "throw" THEN r ELSE Return(r.m, Undefined)

\* ifNone(executor)
ifNone(m, this, executor) ==
    IF isNone(m, this)
    THEN LET r == Invoke(m, executor, <<>>)
         IN  IF r.kind = "throw" THEN r ELSE Return(r.m, Undefined)
    ELSE Return(m, Undefined)

\* expect(message: string | Error)
expect_none_ThrowsMessage(m, message) == Throw(m, message)
expect_none_Renames(m, message) ==
    IF "string" = TypeOf(message)
    THEN LET e == UnwrapError(m, message.str) IN Throw(e.m, e.value)
    ELSE Throw([m EXCEPT !.errs[message.ref].name = "UnwrapError"], message)
expect_none(m, message) ==
    IF "string" = TypeOf(message)
    THEN LET e == UnwrapError(m, message.str) IN Throw(e.m, e.value)
    ELSE Throw(m, message)
expect_some(m, value) == Return(m, value)
expect(m, this, message) ==
    match(m, this, [none |-> [code |-> "expect.none", message |-> message],
                    some |-> [code |-> "expect.some"]])

\* unwrap()
UnwrapMessage_Documented == "Tried to call unwrap() on a none value"
UnwrapMessage == "Tried to call unwrap() on Option.none()"
unwrap(m, this) == expect(m, this, Str(UnwrapMessage))

\* unwrapOr(defaultValue)
unwrapOr_Falsy(m, this, defaultValue) ==
    IF GetValue(m.heap[this]) \in {Undefined, Null, Num(0), Str(""), Bool(FALSE)}
    THEN Return(m, defaultValue)
    ELSE Return(m, GetValue(m.heap[this]))
unwrapOr(m, this, defaultValue) ==
    match(m, this, [none |-> [code |-> "unwrapOr.none", defaultValue |-> defaultValue],
                    some |-> [code |-> "unwrapOr.some"]])

\* unwrapOrElse(defaultValueThunk)
unwrapOrElse_Eager(m, this, defaultValueThunk) ==
    LET d == Invoke(m, defaultValueThunk, <<>>)
    IN  IF isNone(m, this) \/ d.kind = "throw"
        THEN d
        ELSE Return(d.m, GetValue(m.heap[this]))
unwrapOrElse(m, this, defaultValueThunk) ==
    match(m, this, [none |-> [code |-> "unwrapOrElse.none", thunk |-> defaultValueThunk],
                    some |-> [code |-> "unwrapOrElse.some"]])

\* andThen(flatMapper): none: () => Option.none(), some: flatMapper
andThen_Rewrap(m, this, flatMapper) ==
    match(m, this, [none |-> [code |-> "andThen.none"],
                    some |-> [code |-> "map.some", mapper |-> flatMapper]])
andThen(m, this, flatMapper) ==
    match(m, this, [none |-> [code |-> "andThen.none"],
                    some |-> flatMapper])

\* filter(predicate), as the interface documents it: Option.none() on the
\* none; on a some the predicate is called with the value, and the result is
\* `this` if it returns true and Option.none() if it returns false
filter_CallsOnNone(m, this, predicate) ==
    LET r == Invoke(m, predicate, <<GetValue(m.heap[this])>>)
    IN  IF r.kind = "throw"
        THEN r
        ELSE IF ~isNone(m, this) /\ r.value = Bool(TRUE)
             THEN Return(r.m, Ref(this))
             ELSE none(r.m)
filter(m, this, predicate) ==
    IF isNone(m, this)
    THEN none(m)
    ELSE LET r == Invoke(m, predicate, <<GetValue(m.heap[this])>>)
         IN  IF r.kind = "throw"
             THEN r
             ELSE IF r.value = Bool(TRUE) THEN Return(r.m, Ref(this)) ELSE none(r.m)

\* xor(other), as the interface documents it: the option that is some if
\* exactly one of [this, other] is some, otherwise Option.none()
xor_Or(m, this, other) ==
    IF isSome(m, this) THEN Return(m, Ref(this)) ELSE Return(m, Ref(other))
xor(m, this, other) ==
    IF isSome(m, this)
    THEN IF isSome(m, other) THEN none(m) ELSE Return(m, Ref(this))
    ELSE IF isSome(m, other) THEN Return(m, Ref(other)) ELSE none(m)

\* Running a closure: one of the caller's, or one index.ts builds
Invoke(m, f, args) ==
    CASE f.code \in UserCodes -> UserCall(m, f, args)
      [] f.code \in ReadmeCodes -> ReadmeCall(m, f, args)
      [] f.code = "map.none" -> map_none(m, f.this)
      [] f.code = "map.some" -> map_some(m, f.mapper, Arg(args, 1))
      [] f.code = "expect.none" -> expect_none(m, f.message)
      [] f.code = "expect.some" -> expect_some(m, Arg(args, 1))
      [] f.code = "unwrapOr.none" -> Return(m, f.defaultValue)
      [] f.code = "unwrapOr.some" -> Return(m, Arg(args, 1))
      [] f.code = "unwrapOrElse.none" -> Invoke(m, f.thunk, <<>>)
      [] f.code = "unwrapOrElse.some" -> Return(m, Arg(args, 1))
      [] f.code = "andThen.none" -> none(m)

\* Option.all() reads the property prop of options[i]: the read is logged
Read(m, i, prop) == [m EXCEPT !.reads = Append(@, [index |-> i, prop |-> prop])]

\* static all(options): the for loop from index i on, values collected so far.
\* option.isSome() reads the tag of options[i], (option as any).value its payload.
RECURSIVE allLoop(_, _, _, _)
allLoop(m, options, i, values) ==
    IF ~(i <= Len(options))
    THEN some(m, Arr(values))
    ELSE LET m1 == Read(m, i, "isNone_")
         IN  IF isSome(m1, options[i].ref)
             THEN allLoop(Read(m1, i, "value"), options, i + 1,
                          Append(values, GetValue(m1.heap[options[i].ref])))
             ELSE none(m1)
\* the loop without its early return: every element is inspected, and none()
\* is returned at the end if one of them was a none
RECURSIVE allLoop_NoBreak(_, _, _, _, _)
allLoop_NoBreak(m, options, i, values, sawNone) ==
    IF ~(i <= Len(options))
    THEN IF sawNone THEN none(m) ELSE some(m, Arr(values))
    ELSE LET m1 == Read(m, i, "isNone_")
         IN  IF isSome(m1, options[i].ref)
             THEN allLoop_NoBreak(Read(m1, i, "value"), options, i + 1,
                                  Append(values, GetValue(m1.heap[options[i].ref])),
                                  sawNone)
             ELSE allLoop_NoBreak(m1, options, i + 1, values, TRUE)
all_NoBreak(m, options) == allLoop_NoBreak(m, options, 1, <<>>, FALSE)
all_Reversed(m, options) ==
    allLoop(m, [j \in 1..Len(options) |-> options[Len(options) + 1 - j]], 1, <<>>)
all(m, options) == allLoop(m, options, 1, <<>>)

\* ------------------------------------------------- the caller's inputs
Prims == {Undefined, Null, Num(0)}
Refs == {Ref(i) : i \in DOMAIN heap}
ErrRefs == {ErrRef(i) : i \in DOMAIN errs}
Messages == {"Oh noes!", ""}
NoneCallbacks == {Constant(Num(-1))} \cup {Raise(e) : e \in ErrRefs}
Mappers == {ArrayOf, SomeOf} \cup {Raise(e) : e \in ErrRefs}
FlatMappers == {SomeOf} \cup {Constant(r) : r \in Refs} \cup {Raise(e) : e \in ErrRefs}
ReadmeValues == {Str("foo"), Str(""), Num(3), Num(0)}
Predicates == {Constant(Bool(TRUE)), Constant(Bool(FALSE)), IsNull}
Thunks == {Constant(Num(-19))} \cup {Raise(e) : e \in ErrRefs}
\* arrays of distinct containers
OptionArrays ==
    UNION {{s \in [1..n -> Refs] : \A i, j \in 1..n : s[i] = s[j] => i = j} :
           n \in 0..MaxAll}

\* The machine an operation starts on: the heaps, and an empty call log
M == [heap |-> heap, errs |-> errs, calls |-> <<>>, reads |-> <<>>]

NoOp == [name |-> "-"]
NoRet == [kind |-> "-"]

\* The module is loaded: NONE exists, nothing has been called
Init ==
    /\ heap = <<NoneObject>>
    /\ errs = <<>>
    /\ calls = <<>>
    /\ reads = <<>>
    /\ op = NoOp
    /\ ret = NoRet
    /\ before = [heap |-> heap, errs |-> errs]
    /\ noneRefs = {}
    /\ noneCalls = 0
    /\ pc = "idle"

\* The caller calls the operation o, which ends as the completion r
Done(o, r) ==
    /\ pc = "idle"
    /\ Len(r.m.heap) <= MaxHeap
    /\ Len(r.m.errs) <= MaxErrs
    /\ pc' = "called"
    /\ heap' = r.m.heap
    /\ errs' = r.m.errs
    /\ calls' = r.m.calls
    /\ reads' = r.m.reads
    /\ op' = o
    /\ ret' = [kind |-> r.kind, value |-> r.value]
    /\ before' = [heap |-> heap, errs |-> errs]
    /\ noneRefs' = IF o.name = "none" THEN noneRefs \cup {r.value} ELSE noneRefs
    /\ noneCalls' = IF o.name = "none" THEN noneCalls + 1 ELSE noneCalls

\* The caller is done with the result and goes on to its next statement; the
\* objects stay allocated
Resume ==
    /\ pc = "called"
    /\ pc' = "idle"
    /\ op' = NoOp
    /\ ret' = NoRet
    /\ calls' = <<>>
    /\ reads' = <<>>
    /\ before' = [heap |-> heap, errs |-> errs]
    /\ UNCHANGED <<heap, errs, noneRefs, noneCalls>>

\* The caller builds an error object of its own: new Error(message)
NewError ==
    \E s \in Messages :
        Done([name |-> "new Error", arg |-> s],
             Return([M EXCEPT !.errs = Append(@, NewErrorObject(s))],
                    ErrRef(Len(errs) + 1)))

CallSome == \E v \in Prims : Done([name |-> "some", arg |-> v], some(M, v))

CallNone == noneCalls < MaxNoneCalls /\ Done([name |-> "none"], none(M))

CallAll ==
    \E options \in OptionArrays :
        Done([name |-> "all", arg |-> options], all(M, options))

CallIsNone ==
    \E this \in DOMAIN heap :
        Done([name |-> "isNone", this |-> this], Return(M, Bool(isNone(M, this))))

CallIsSome ==
    \E this \in DOMAIN heap :
        Done([name |-> "isSome", this |-> this], Return(M, Bool(isSome(M, this))))

CallMatch ==
    \E this \in DOMAIN heap, n \in NoneCallbacks, s \in Mappers :
        Done([name |-> "match", this |-> this, arg |-> [none |-> n, some |-> s]],
             match(M, this, [none |-> n, some |-> s]))

CallMap ==
    \E this \in DOMAIN heap, mapper \in Mappers :
        Done([name |-> "map", this |-> this, arg |-> mapper], map(M, this, mapper))

CallIfSome ==
    \E this \in DOMAIN heap, executor \in Mappers :
        Done([name |-> "ifSome", this |-> this, arg |-> executor],
             ifSome(M, this, executor))

CallIfNone ==
    \E this \in DOMAIN heap, executor \in NoneCallbacks :
        Done([name |-> "ifNone", this |-> this, arg |-> executor],
             ifNone(M, this, executor))

CallUnwrap ==
    \E this \in DOMAIN heap :
        Done([name |-> "unwrap", this |-> this], unwrap(M, this))

CallExpect ==
    \E this \in DOMAIN heap, message \in {Str(s) : s \in Messages} \cup ErrRefs :
        Done([name |-> "expect", this |-> this, arg |-> message],
             expect(M, this, message))

CallUnwrapOr ==
    \E this \in DOMAIN heap, d \in Prims :
        Done([name |-> "unwrapOr", this |-> this, arg |-> d], unwrapOr(M, this, d))

CallUnwrapOrElse ==
    \E this \in DOMAIN heap, thunk \in Thunks :
        Done([name |-> "unwrapOrElse", this |-> this, arg |-> thunk],
             unwrapOrElse(M, this, thunk))

CallFilter ==
    \E this \in DOMAIN heap, predicate \in Predicates :
        Done([name |-> "filter", this |-> this, arg |-> predicate],
             filter(M, this, predicate))

CallXor ==
    \E this \in DOMAIN heap, other \in DOMAIN heap :
        Done([name |-> "xor", this |-> this, arg |-> Ref(other)], xor(M, this, other))

CallAndThen ==
    \E this \in DOMAIN heap, flatMapper \in FlatMappers :
        Done([name |-> "andThen", this |-> this, arg |-> flatMapper],
             andThen(M, this, flatMapper))

\* Every operation of the class
Next ==
    \/ Resume
    \/ NewError
    \/ CallSome
    \/ CallNone
    \/ CallAll
    \/ CallIsNone
    \/ CallIsSome
    \/ CallMatch
    \/ CallMap
    \/ CallIfSome
    \/ CallIfNone
    \/ CallUnwrap
    \/ CallExpect
    \/ CallUnwrapOr
    \/ CallUnwrapOrElse
    \/ CallAndThen
    \/ CallFilter
    \/ CallXor

Spec == Init /\ [][Next]_vars

\* The factory, the tag queries, match() and the transforming combinators
NextCore ==
    \/ Resume
    \/ NewError
    \/ CallSome
    \/ CallNone
    \/ CallIsNone
    \/ CallIsSome
    \/ CallMatch
    \/ CallMap
    \/ CallAndThen
SpecCore == Init /\ [][NextCore]_vars

\* unwrap() and expect()
NextExpect == Resume \/ NewError \/ CallSome \/ CallUnwrap \/ CallExpect
SpecExpect == Init /\ [][NextExpect]_vars

\* Option.all()
NextAll == Resume \/ CallSome \/ CallAll
SpecAll == Init /\ [][NextAll]_vars

\* Every method of class Option and Option.all(), on containers made by
\* Option.some(), on a heap of at most MaxLibraryHeap Option objects; the Error
\* objects are the ones unwrap() and expect() have thrown
NextLibrary ==
    /\ \/ Resume
       \/ CallSome
       \/ CallAll
       \/ CallIsNone
       \/ CallIsSome
       \/ CallMatch
       \/ CallMap
       \/ CallIfSome
       \/ CallIfNone
       \/ CallUnwrap
       \/ CallExpect
       \/ CallUnwrapOr
       \/ CallUnwrapOrElse
       \/ CallAndThen
    /\ Len(heap') <= MaxLibraryHeap
SpecLibrary == Init /\ [][NextLibrary]_vars

\* The factories and every operation that can return a container, on a heap
\* of at most MaxLibraryHeap Option objects
NextContainers ==
    /\ \/ Resume
       \/ CallSome
       \/ CallNone
       \/ CallAll
       \/ CallMatch
       \/ CallMap
       \/ CallIfSome
       \/ CallAndThen
    /\ Len(heap') <= MaxLibraryHeap
SpecContainers == Init /\ [][NextContainers]_vars

\* The README's usage example: somes of strings and counts, map(toUpperCase),
\* andThen(a => c.map(c => a.repeat(c))) and unwrap()
HoldsKind(this, kind) ==
    IF heap[this].isNone_ THEN TRUE ELSE heap[this].value.kind = kind

ReadmeSome == \E v \in ReadmeValues : Done([name |-> "some", arg |-> v], some(M, v))

ReadmeMap ==
    \E this \in DOMAIN heap :
        /\ HoldsKind(this, "string")
        /\ Done([name |-> "map", this |-> this, arg |-> ToUpperCase],
                map(M, this, ToUpperCase))

ReadmeAndThen ==
    \E this \in DOMAIN heap, c \in DOMAIN heap :
        /\ HoldsKind(this, "string")
        /\ HoldsKind(c, "number")
        /\ Done([name |-> "andThen", this |-> this, arg |-> RepeatTimes(Ref(c))],
                andThen(M, this, RepeatTimes(Ref(c))))

NextReadme == Resume \/ ReadmeSome \/ ReadmeMap \/ ReadmeAndThen \/ CallUnwrap
SpecReadme == Init /\ [][NextReadme]_vars

\* filter() and xor()
NextFilter == Resume \/ CallSome \/ CallFilter \/ CallXor
SpecFilter == Init /\ [][NextFilter]_vars

\* The combinators that run a callback of the caller, and unwrapOr()
NextCallbacks ==
    \/ Resume
    \/ NewError
    \/ CallSome
    \/ CallMatch
    \/ CallMap
    \/ CallIfSome
    \/ CallIfNone
    \/ CallUnwrapOr
    \/ CallUnwrapOrElse
    \/ CallAndThen
SpecCallbacks == Init /\ [][NextCallbacks]_vars

\* ---------------------------------------------------------------- claims
\* The last operation called was `name`, and the caller holds its result
Called(name) == pc = "called" /\ op.name = name
\* The machine the last operation started on
B == [heap |-> before.heap, errs |-> before.errs, calls |-> <<>>, reads |-> <<>>]
\* The receiver of the last operation, as it was when the operation was called
Receiver == before.heap[op.this]
\* How a completion ended, without the machine
Completion(r) == [kind |-> r.kind, value |-> r.value]
\* v refers to an Option object the last operation allocated
FreshOption(v) ==
    v.kind = "option" /\ v.ref \in DOMAIN heap /\ v.ref \notin DOMAIN before.heap
\* v refers to an Error object the last operation allocated
FreshError(v) ==
    v.kind = "error" /\ v.ref \in DOMAIN errs /\ v.ref \notin DOMAIN before.errs
\* The Error objects that existed when the last operation was called are as they were
ErrsKept == SubSeq(errs, 1, Len(before.errs)) = before.errs

\* C1: every call of Option.none() returns the same instance: all the values
\* none() has returned so far, whatever was called in between, are one and
\* the same reference.
C1_NoneIsOneInstance == Cardinality(noneRefs) <= 1
\* none() has been called at least twice, with containers allocated meanwhile
C1_Witness ==
    /\ Called("none")
    /\ noneCalls >= 2
    /\ Len(heap) > 1
    /\ noneRefs = {ret.value}

\* C2: for every payload v, null and undefined included, some(v).isSome() is
\* true and some(v).isNone() is false; none().isSome() is false and
\* none().isNone() is true; on every container isNone() is the negation of
\* isSome(); so a call of isSome() answers true exactly on the containers
\* other than the canonical none, and a call of isNone() the opposite.
C2_TagQueries ==
    /\ \A v \in Prims \cup Refs :
           LET s == some(M, v)
           IN  isSome(s.m, s.value.ref) /\ ~isNone(s.m, s.value.ref)
    /\ LET n == none(M)
       IN  ~isSome(n.m, n.value.ref) /\ isNone(n.m, n.value.ref)
    /\ \A this \in DOMAIN heap : isNone(M, this) = ~isSome(M, this)
    /\ Called("isSome") => ret = [kind |-> "return", value |-> Bool(op.this # NONE)]
    /\ Called("isNone") => ret = [kind |-> "return", value |-> Bool(op.this = NONE)]
\* isSome() was called on a container that wraps undefined, and answered true
C2_Witness ==
    /\ Called("isSome")
    /\ ~Receiver.isNone_
    /\ Receiver.value = Undefined
    /\ ret.value = Bool(TRUE)

\* C3: match({none, some}) invokes exactly one of the two callbacks, once,
\* chosen by the tag alone: on a some it calls `some` with the payload as its
\* single argument, on the none it calls `none` with no arguments; the other
\* callback is not called, and match ends the way the invoked callback ended.
C3_MatchCallsOne ==
    Called("match") =>
        IF Receiver.isNone_
        THEN /\ calls = <<[fn |-> op.arg.none, args |-> <<>>]>>
             /\ ret = Completion(UserCall(B, op.arg.none, <<>>))
        ELSE /\ calls = <<[fn |-> op.arg.some, args |-> <<Receiver.value>>]>>
             /\ ret = Completion(UserCall(B, op.arg.some, <<Receiver.value>>))
\* match() on a some whose two callbacks differ: `some` ran, with the payload
C3_Witness ==
    /\ Called("match")
    /\ ~Receiver.isNone_
    /\ op.arg.none = Constant(Num(-1))
    /\ op.arg.some = ArrayOf
    /\ calls = <<[fn |-> ArrayOf, args |-> <<Receiver.value>>]>>
    /\ ret = [kind |-> "return", value |-> Arr(<<Receiver.value>>)]

\* C4: some(v).map(f) invokes f exactly once, with v, and (f returning) yields
\* a new Some container whose payload is f(v); none().map(f) yields none()
\* without invoking f.
C4_Map ==
    Called("map") =>
        IF Receiver.isNone_
        THEN /\ calls = <<>>
             /\ ret = [kind |-> "return", value |-> Ref(NONE)]
             /\ heap = before.heap
        ELSE LET c == UserCall(B, op.arg, <<Receiver.value>>)
             IN  /\ calls = <<[fn |-> op.arg, args |-> <<Receiver.value>>]>>
                 /\ c.kind = "return" =>
                        /\ ret.kind = "return"
                        /\ FreshOption(ret.value)
                        /\ isSome(M, ret.value.ref)
                        /\ heap[ret.value.ref].value = c.value
\* map(x => [x]) on a some: the result is another container, wrapping [v]
C4_Witness ==
    /\ Called("map")
    /\ ~Receiver.isNone_
    /\ op.arg = ArrayOf
    /\ ret.value # Ref(op.this)
    /\ heap[ret.value.ref] = [isNone_ |-> FALSE, value |-> Arr(<<Receiver.value>>)]

\* C5 as the specification states it: some(v).unwrap() returns v, and
\* none().unwrap() throws an error whose message is exactly
\* "Tried to call unwrap() on a none value".
C5_AsStated ==
    Called("unwrap") =>
        IF Receiver.isNone_
        THEN /\ ret.kind = "throw"
             /\ ret.value.kind = "error"
             /\ errs[ret.value.ref].message = "Tried to call unwrap() on a none value"
        ELSE ret = [kind |-> "return", value |-> Receiver.value]

\* C5, amended: some(v).unwrap() returns v; none().unwrap() throws an
\* UnwrapError whose message is exactly
\* "Tried to call unwrap() on Option.none()"; in both cases unwrap() ends as
\* expect() called with that message ends, and leaves the heaps as it does.
C5_Unwrap ==
    Called("unwrap") =>
        LET e == expect(B, op.this, Str("Tried to call unwrap() on Option.none()"))
        IN  /\ ret = Completion(e)
            /\ heap = e.m.heap
            /\ errs = e.m.errs
            /\ IF Receiver.isNone_
               THEN /\ ret.kind = "throw"
                    /\ FreshError(ret.value)
                    /\ errs[ret.value.ref].message =
                           "Tried to call unwrap() on Option.none()"
               ELSE ret = [kind |-> "return", value |-> Receiver.value]
\* unwrap() was called on the none and threw
C5_Witness ==
    /\ Called("unwrap")
    /\ Receiver.isNone_
    /\ ret.kind = "throw"

\* C6: none().unwrap() throws an error whose name is "UnwrapError" and whose
\* message is exactly "Tried to call unwrap() on Option.none()".
C6_UnwrapErrorOnNone ==
    Called("unwrap") /\ op.this = NONE =>
        /\ ret.kind = "throw"
        /\ ret.value.kind = "error"
        /\ errs[ret.value.ref] =
               [name |-> "UnwrapError",
                message |-> "Tried to call unwrap() on Option.none()"]
\* unwrap() on the canonical none threw an error named UnwrapError
C6_Witness ==
    /\ Called("unwrap")
    /\ op.this = NONE
    /\ ret.value.kind = "error"
    /\ errs[ret.value.ref].name = "UnwrapError"

\* C7: for every string s, none().expect(s) throws a newly created error
\* named "UnwrapError" whose message is s, and some(v).expect(s) returns v,
\* throws nothing and creates no error.
C7_ExpectString ==
    Called("expect") /\ op.arg.kind = "string" =>
        /\ calls = <<>>
        /\ ErrsKept
        /\ IF Receiver.isNone_
           THEN /\ ret.kind = "throw"
                /\ FreshError(ret.value)
                /\ errs[ret.value.ref] =
                       [name |-> "UnwrapError", message |-> op.arg.str]
           ELSE /\ ret = [kind |-> "return", value |-> Receiver.value]
                /\ errs = before.errs
\* expect("") on the none threw a new UnwrapError with the empty message
C7_Witness ==
    /\ Called("expect")
    /\ op.arg = Str("")
    /\ Receiver.isNone_
    /\ FreshError(ret.value)
    /\ errs[ret.value.ref].message = ""

\* C8: for every error object e, none().expect(e) throws e itself: the same
\* reference, no UnwrapError created, e as it was; some(v).expect(e) returns
\* v and throws nothing.
C8_ExpectError ==
    Called("expect") /\ op.arg.kind = "error" =>
        /\ calls = <<>>
        /\ errs = before.errs
        /\ IF Receiver.isNone_
           THEN ret = [kind |-> "throw", value |-> op.arg]
           ELSE ret = [kind |-> "return", value |-> Receiver.value]
\* expect(e) on the none threw the caller's own Error object
C8_Witness ==
    /\ Called("expect")
    /\ op.arg.kind = "error"
    /\ Receiver.isNone_
    /\ ret = [kind |-> "throw", value |-> op.arg]
    /\ errs[op.arg.ref] = NewErrorObject("Oh noes!")

\* C9: andThen(f) on the none never invokes f and returns none(); on some(v)
\* it invokes f exactly once, with v, and returns the very container f
\* returned, allocating nothing of its own (so none() when f(v) is none()).
C9_AndThen ==
    Called("andThen") =>
        IF Receiver.isNone_
        THEN /\ calls = <<>>
             /\ ret = [kind |-> "return", value |-> Ref(NONE)]
             /\ heap = before.heap
        ELSE LET c == UserCall(B, op.arg, <<Receiver.value>>)
             IN  /\ calls = <<[fn |-> op.arg, args |-> <<Receiver.value>>]>>
                 /\ ret = Completion(c)
                 /\ heap = c.m.heap
\* andThen(x => Option.some(x)) on a some returned the container f allocated
C9_Witness ==
    /\ Called("andThen")
    /\ ~Receiver.isNone_
    /\ op.arg = SomeOf
    /\ Len(calls) = 1
    /\ FreshOption(ret.value)
    /\ Len(heap) = Len(before.heap) + 1
    /\ heap[ret.value.ref].value = Receiver.value

\* C10: when every element of the array passed to all() is a some, the result
\* is a new some wrapping an array of the same length that holds the payloads
\* in the order of the input, null and undefined payloads as any other; for
\* the empty array it is a some of the empty array.
C10_AllOfSomes ==
    Called("all") /\ (\A i \in DOMAIN op.arg : ~before.heap[op.arg[i].ref].isNone_) =>
        /\ ret.kind = "return"
        /\ FreshOption(ret.value)
        /\ isSome(M, ret.value.ref)
        /\ heap[ret.value.ref].value.kind = "array"
        /\ Len(heap[ret.value.ref].value.elems) = Len(op.arg)
        /\ \A i \in DOMAIN op.arg :
               heap[ret.value.ref].value.elems[i] = before.heap[op.arg[i].ref].value
\* all([a, c]) with a wrapping null and c wrapping something else
C10_Witness ==
    /\ Called("all")
    /\ Len(op.arg) = 2
    /\ \A i \in DOMAIN op.arg : ~before.heap[op.arg[i].ref].isNone_
    /\ before.heap[op.arg[1].ref].value = Null
    /\ before.heap[op.arg[2].ref].value # Null
    /\ heap[ret.value.ref].value.elems[1] = Null
    /\ heap[ret.value.ref].value.elems[2] # Null

\* The index of the first none in the array the last all() was called with
FirstNone ==
    CHOOSE k \in DOMAIN op.arg :
        /\ before.heap[op.arg[k].ref].isNone_
        /\ \A i \in 1..(k - 1) : ~before.heap[op.arg[i].ref].isNone_

\* C11: when an element of the array passed to all() is a none, the result is
\* none() and nothing is allocated (no partial array); the elements are
\* inspected in index order up to the first none, whose tag is the last thing
\* read: no element at a later index has its tag queried or its payload read.
C11_AllStopsAtFirstNone ==
    Called("all") /\ (\E i \in DOMAIN op.arg : before.heap[op.arg[i].ref].isNone_) =>
        /\ ret = [kind |-> "return", value |-> Ref(NONE)]
        /\ heap = before.heap
        /\ Len(reads) = 2 * FirstNone - 1
        /\ \A i \in 1..(FirstNone - 1) :
               /\ reads[2 * i - 1] = [index |-> i, prop |-> "isNone_"]
               /\ reads[2 * i] = [index |-> i, prop |-> "value"]
        /\ reads[2 * FirstNone - 1] = [index |-> FirstNone, prop |-> "isNone_"]
        /\ \A j \in DOMAIN reads : reads[j].index <= FirstNone
\* all([none(), a]) with a some a: only the tag of element 1 was read
C11_Witness ==
    /\ Called("all")
    /\ Len(op.arg) = 2
    /\ op.arg[1] = Ref(NONE)
    /\ ~before.heap[op.arg[2].ref].isNone_
    /\ reads = <<[index |-> 1, prop |-> "isNone_"]>>
    /\ ret.value = Ref(NONE)

\* C12: unwrapOrElse(thunk) on some(v) returns v and does not invoke thunk; on
\* the none it invokes thunk exactly once, with no arguments, and ends as
\* thunk ended; so it fails only when it is called on the none and thunk fails.
C12_UnwrapOrElse ==
    Called("unwrapOrElse") =>
        /\ IF Receiver.isNone_
           THEN /\ calls = <<[fn |-> op.arg, args |-> <<>>]>>
                /\ ret = Completion(UserCall(B, op.arg, <<>>))
           ELSE /\ calls = <<>>
                /\ ret = [kind |-> "return", value |-> Receiver.value]
        /\ ret.kind = "throw" => Receiver.isNone_ /\ op.arg.code = "raise"
\* unwrapOrElse(() => -19) on the none called the thunk once and returned -19
C12_Witness ==
    /\ Called("unwrapOrElse")
    /\ Receiver.isNone_
    /\ op.arg = Constant(Num(-19))
    /\ Len(calls) = 1
    /\ ret = [kind |-> "return", value |-> Num(-19)]

\* C13: unwrapOr(d) never fails: on some(v) it returns v, whatever v is
\* (undefined, null and 0 included) and whatever d is; on the none it
\* returns d.
C13_UnwrapOr ==
    Called("unwrapOr") =>
        /\ ret.kind = "return"
        /\ ret.value = (IF Receiver.isNone_ THEN op.arg ELSE Receiver.value)
        /\ calls = <<>>
        /\ heap = before.heap
        /\ errs = before.errs
\* unwrapOr(0) on some(null) returned null
C13_Witness ==
    /\ Called("unwrapOr")
    /\ ~Receiver.isNone_
    /\ Receiver.value = Null
    /\ op.arg = Num(0)
    /\ ret = [kind |-> "return", value |-> Null]

\* C14: ifSome(f) on a some invokes f exactly once, with the payload, and on
\* the none does nothing; ifNone(f) on the none invokes f exactly once, with
\* no arguments, and on a some does nothing; both return undefined whatever
\* f returns.
C14_IfSomeIfNone ==
    /\ Called("ifSome") =>
           IF Receiver.isNone_
           THEN /\ calls = <<>>
                /\ ret = [kind |-> "return", value |-> Undefined]
                /\ heap = before.heap
                /\ errs = before.errs
           ELSE /\ calls = <<[fn |-> op.arg, args |-> <<Receiver.value>>]>>
                /\ UserCall(B, op.arg, <<Receiver.value>>).kind = "return" =>
                       ret = [kind |-> "return", value |-> Undefined]
    /\ Called("ifNone") =>
           IF Receiver.isNone_
           THEN /\ calls = <<[fn |-> op.arg, args |-> <<>>]>>
                /\ UserCall(B, op.arg, <<>>).kind = "return" =>
                       ret = [kind |-> "return", value |-> Undefined]
           ELSE /\ calls = <<>>
                /\ ret = [kind |-> "return", value |-> Undefined]
                /\ heap = before.heap
                /\ errs = before.errs
\* ifSome(x => [x]) on a some called f with the payload and returned undefined
C14_Witness ==
    /\ Called("ifSome")
    /\ ~Receiver.isNone_
    /\ op.arg = ArrayOf
    /\ calls = <<[fn |-> ArrayOf, args |-> <<Receiver.value>>]>>
    /\ ret = [kind |-> "return", value |-> Undefined]

\* C15: filter(pred) on some(v) invokes pred exactly once, with v, and returns
\* the receiver itself if pred(v) is true and none() otherwise; on the none it
\* returns none() and does not invoke pred.  Nothing is allocated.
C15_Filter ==
    Called("filter") =>
        /\ heap = before.heap
        /\ IF Receiver.isNone_
           THEN /\ calls = <<>>
                /\ ret = [kind |-> "return", value |-> Ref(NONE)]
           ELSE LET c == UserCall(B, op.arg, <<Receiver.value>>)
                IN  /\ calls = <<[fn |-> op.arg, args |-> <<Receiver.value>>]>>
                    /\ ret = [kind |-> "return",
                              value |-> IF c.value = Bool(TRUE)
                                        THEN Ref(op.this)
                                        ELSE Ref(NONE)]
\* filter(x => x === null) on some(null) returned the receiver itself
C15_Witness ==
    /\ Called("filter")
    /\ ~Receiver.isNone_
    /\ Receiver.value = Null
    /\ op.arg = IsNull
    /\ Len(calls) = 1
    /\ ret = [kind |-> "return", value |-> Ref(op.this)]

\* C16: a.xor(b) returns a itself when only a is a some, b itself when only b
\* is a some, and none() when both are somes or both are none.
C16_Xor ==
    Called("xor") =>
        LET aSome == ~Receiver.isNone_
            bSome == ~before.heap[op.arg.ref].isNone_
        IN  /\ heap = before.heap
            /\ ret.kind = "return"
            /\ aSome /\ ~bSome => ret.value = Ref(op.this)
            /\ ~aSome /\ bSome => ret.value = op.arg
            /\ aSome = bSome => ret.value = Ref(NONE)
\* a.xor(b) with two different somes returned none()
C16_Witness ==
    /\ Called("xor")
    /\ ~Receiver.isNone_
    /\ ~before.heap[op.arg.ref].isNone_
    /\ op.arg # Ref(op.this)
    /\ ret = [kind |-> "return", value |-> Ref(NONE)]

\* The README's d: the result of a.andThen(a => c.map(c => a.repeat(c))) with
\* a = some("foo") and c = some(3)
ReadmeExample ==
    /\ Called("andThen")
    /\ op.arg.code = "repeatTimes"
    /\ ~Receiver.isNone_
    /\ Receiver.value = Str("foo")
    /\ ~before.heap[op.arg.c.ref].isNone_
    /\ before.heap[op.arg.c.ref].value = Num(3)
\* what d.unwrap() completes with
UnwrapOfResult ==
    Completion(unwrap([heap |-> heap, errs |-> errs, calls |-> <<>>, reads |-> <<>>],
                      ret.value.ref))

\* C17: in the README's usage example, with a = some("foo"), c = some(3) and
\* d = a.andThen(a => c.map(c => a.repeat(c))), d.unwrap() yields "FOOFOOFOO".
C17_AsStated ==
    ReadmeExample =>
        /\ ret.kind = "return"
        /\ UnwrapOfResult = [kind |-> "return", value |-> Str("FOOFOOFOO")]
\* the example ran, and d.unwrap() yields "foofoofoo"
C17_Witness ==
    /\ ReadmeExample
    /\ ret.kind = "return"
    /\ UnwrapOfResult = [kind |-> "return", value |-> Str("foofoofoo")]

\* The callback of the caller that the last operation runs, given the tag of
\* its receiver; the code "-" if it runs none
InvokedCallback ==
    CASE op.name = "match" -> IF Receiver.isNone_ THEN op.arg.none ELSE op.arg.some
      [] op.name \in {"map", "ifSome", "andThen"} ->
            IF Receiver.isNone_ THEN [code |-> "-"] ELSE op.arg
      [] op.name \in {"ifNone", "unwrapOrElse"} ->
            IF Receiver.isNone_ THEN op.arg ELSE [code |-> "-"]
      [] OTHER -> [code |-> "-"]

\* C18: a failure raised by the caller's callback (the mapper of map, the
\* flatMapper of andThen, the thunk of unwrapOrElse, the executors of ifSome
\* and ifNone, the callbacks of match) reaches the combinator's caller as the
\* very same failure value: the combinator throws it, returns no container,
\* and creates neither a container nor another failure.
C18_CallbackFailurePropagates ==
    pc = "called" /\ InvokedCallback.code = "raise" =>
        /\ ret = [kind |-> "throw", value |-> InvokedCallback.error]
        /\ heap = before.heap
        /\ errs = before.errs
\* map(mapper) on a some, whose mapper threw e, threw e
C18_Witness ==
    /\ Called("map")
    /\ ~Receiver.isNone_
    /\ op.arg.code = "raise"
    /\ calls = <<[fn |-> op.arg, args |-> <<Receiver.value>>]>>
    /\ ret = [kind |-> "throw", value |-> op.arg.error]

\* C19: no operation (match, isSome, isNone, map, ifSome, ifNone, unwrap,
\* expect, unwrapOr, unwrapOrElse, andThen, all) changes the tag or the payload
\* of a container that existed when it was called, the canonical none
\* included, whether it returns or throws; map on a some returns a container
\* that did not exist before, not its receiver.
C19_ContainersAreImmutable ==
    pc = "called" =>
        /\ Len(heap) >= Len(before.heap)
        /\ \A i \in DOMAIN before.heap : heap[i] = before.heap[i]
        /\ heap[NONE] = NoneObject
        /\ Called("map") /\ ret.kind = "return" =>
               IF Receiver.isNone_
               THEN ret.value = Ref(op.this)
               ELSE FreshOption(ret.value) /\ ret.value # Ref(op.this)
\* map(x => [x]) on a some returned a new container holding another payload,
\* and the receiver holds what it held
C19_Witness ==
    /\ Called("map")
    /\ ~Receiver.isNone_
    /\ op.arg = ArrayOf
    /\ ret.kind = "return"
    /\ FreshOption(ret.value)
    /\ heap[ret.value.ref].value = Arr(<<Receiver.value>>)
    /\ heap[op.this] = Receiver
    /\ heap[op.this].value # heap[ret.value.ref].value

\* C20: every container whose tag is None is the one canonical instance
\* none() returns: some(v) never makes a None-tagged container, and the none
\* that map on the none, andThen on the none and all with a none element
\* return is that instance.
C20_NoneIsCanonical ==
    /\ heap[NONE].isNone_
    /\ \A i \in DOMAIN heap : heap[i].isNone_ => i = NONE
    /\ noneRefs \subseteq {Ref(NONE)}
    /\ Called("some") => ~heap[ret.value.ref].isNone_
    /\ Called("map") /\ Receiver.isNone_ => ret.value = Ref(NONE)
    /\ Called("andThen") /\ Receiver.isNone_ => ret.value = Ref(NONE)
    /\ Called("all") /\ (\E i \in DOMAIN op.arg : before.heap[op.arg[i].ref].isNone_) =>
           ret.value = Ref(NONE)
\* map on the result of none() returned the canonical none, with a some in
\* existence
C20_Witness ==
    /\ Called("map")
    /\ Ref(op.this) \in noneRefs
    /\ Receiver.isNone_
    /\ ret = [kind |-> "return", value |-> Ref(NONE)]
    /\ \E i \in DOMAIN heap : ~heap[i].isNone_
====
